---- MODULE Spec2Model ----
(***************************************************************************)
(* The Keys integration: the polling coordinator (async_update_data in     *)
(* custom_components/the_keys/__init__.py) and the gateway client          *)
(* (TheKeysGateway in the_keyspy/devices/gateway.py).                      *)
(*                                                                         *)
(* Time is counted in ticks of half a second, the smallest duration the    *)
(* code uses (the 0.5 s inter-device delay).  The model keeps the          *)
(* differences the code computes from time.time() (for instance            *)
(* time_since_last_request) instead of the absolute clock; a difference    *)
(* saturates at TimeCap, which is larger than every delay it is compared   *)
(* with.                                                                   *)
(*                                                                         *)
(* Spec is the coordinator, cycle after cycle, with the gateway calls its  *)
(* cycles make.  GatewaySpec is the gateway client alone, called with any  *)
(* of its methods.                                                         *)
(***************************************************************************)
EXTENDS Integers, Sequences, FiniteSets, TLC

\* ------------------------------------------------------------------ bounds
MaxLatency == 1      \* ticks one HTTP exchange may take
MaxIdle == 2         \* ticks that pass between two cycles (0, or MaxIdle, or a long pause)
TimeCap == 13        \* saturation of every measured time difference

\* ------------------------------------------------- program constants (ticks)
ONE_SECOND == 2                        \* int(time.time()) counts whole seconds
DEFAULT_RATE_LIMIT_DELAY == 10        \* 5.0 s, heavy operations
DEFAULT_RATE_LIMIT_DELAY_LIGHT == 2   \* 1.0 s, light operations
TS_RETRY_SLEEP_HALF == ONE_SECOND \div 2   \* a variant: time.sleep(0.5)
TS_RETRY_SLEEP == 2                   \* time.sleep(1) after a code 33
INITIAL_RETRY_DELAY == 2              \* retry_delay = 1
SYNC_SLEEP == 10                      \* asyncio.sleep(5)
BUSY_SLEEP_AS_SYNC == SYNC_SLEEP      \* a variant: asyncio.sleep(5) for a busy gateway
BUSY_SLEEP == 12                      \* asyncio.sleep(6)
INTER_DEVICE_SLEEP_NONE == 0 * ONE_SECOND   \* a variant: asyncio.sleep(0)
INTER_DEVICE_SLEEP == 1               \* asyncio.sleep(0.5)
REQUEST_TIMEOUT == 20                 \* timeout = 10
max_ts_retries == 3
max_retries == 3
STATUS_ATTEMPTS == 3                  \* for attempt in range(3)
SYNC_ATTEMPTS == 3                    \* for sync_attempt in range(3)

Min(a, b) == IF a < b THEN a ELSE b

\* The installation: the ids of the locks api.get_devices() returned at setup.
LockIds == <<101, 102>>
DeviceIndex == 1..Len(LockIds)

\* ----------------------------------------------------------------- values
\* A gateway ko body.  str(RuntimeError(body)) is the repr of the dict; the
\* coordinator only recognises it when it starts with the 'status' key.
Codes == {33, 34, 38, 400, 500, 99}
NoCode == 0

\* What one lock status response carries.
Readings == {[is_locked |-> TRUE, battery_level |-> 80],
             [is_locked |-> FALSE, battery_level |-> 20]}
DefaultReading == [is_locked |-> FALSE, battery_level |-> 0]

\* current_status texts of the gateway /status body, as word sequences.
CurrentStatuses == {<<"Scanning">>, <<"Synchronizing">>, <<"Synchronizing", "locker">>}

VARIABLES
    pc,                       \* position of the coordinator's cycle
    gateway_reachable,        \* _gateway_reachable
    heap,                     \* device object id -> its mutable fields
    devices,                  \* the collection created at setup: [ref, elems]
    coordinator_data,         \* coordinator.data: what the last cycle returned
    entity_device,            \* TheKeysLockEntity._device of each lock entity (an object id)
    dev,                      \* index of the device being refreshed; 0: no cycle runs
    attempt,                  \* for attempt in range(3)
    sync_attempt,             \* for sync_attempt in range(3)
    verb,                     \* the gateway method being executed
    ts_attempt,               \* for ts_attempt in range(max_ts_retries)
    http_attempt,             \* for attempt in range(max_retries) in __http_request
    retry_delay,              \* retry_delay of __http_request
    response,                 \* what __http_request returned / the exception in flight
    sleep_for, sleep_kind, resume,   \* a pending wait, its kind and where it continues
    time_since_last_request,  \* time.time() - self._last_request_time
    since_sign,               \* time since data["ts"] = str(int(time.time())) was last computed
    ts_same,                  \* the ts of the request being sent equals the ts signed before it
    obs,                      \* observations of the run, read by the properties only
    threads,                  \* executor threads inside a gateway method: [pc, verb, wait]
    ui,                       \* the entity method the host is running, and how it ended
    cancelled                 \* "no", or the kind of wait the cycle's task was cancelled in

vars == <<pc, gateway_reachable, heap, devices, coordinator_data, entity_device, dev,
          attempt, sync_attempt, verb, ts_attempt, http_attempt, retry_delay, response,
          sleep_for, sleep_kind, resume, time_since_last_request, since_sign, ts_same, obs,
          threads, ui, cancelled>>

\* ------------------------------------------------------------ exceptions
\* cls: the exception class; refused: the message holds "Connection refused" or
\* "Errno 111"; code, status_first: the ko body a RuntimeError carries.
NoExc == [cls |-> "none", refused |-> FALSE, code |-> NoCode, status_first |-> FALSE]
Exc(c, r) == [cls |-> c, refused |-> r, code |-> NoCode, status_first |-> FALSE]

\* What requests can raise out of one HTTP exchange.
TransportErrors == {Exc("ConnectionError", TRUE), Exc("ConnectionError", FALSE),
                    Exc("Timeout", FALSE), Exc("ConnectionResetError", FALSE),
                    Exc("RequestException", FALSE)}

\* A decoded response body: status "ok", "ko" or absent (no status field).
Body(st, c, sf, rd) == [status |-> st, code |-> c, status_first |-> sf, reading |-> rd]
OkBodies == {Body(st, NoCode, TRUE, rd) : st \in {"ok", "absent"}, rd \in Readings}
KoBodies == {Body("ko", c, sf, DefaultReading) : c \in Codes, sf \in BOOLEAN}
NoBody == Body("none", NoCode, FALSE, DefaultReading)

\* raise RuntimeError(response_data)
RuntimeErrorOf(body) ==
    [cls |-> "RuntimeError", refused |-> FALSE, code |-> body.code,
     status_first |-> body.status_first]

NoResponse == [kind |-> "none", body |-> NoBody, exc |-> NoExc]
Returned(b) == [kind |-> "body", body |-> b, exc |-> NoExc]
Raised(e) == [kind |-> "exc", body |-> NoBody, exc |-> e]

\* ------------------------------------------------------------------ setup
\* api.get_devices(): the lock objects, created once, with their default fields.
GetDevices == [ref |-> 1, elems |-> [i \in DeviceIndex |-> i]]
NewHeap == [o \in DeviceIndex |-> [id |-> LockIds[o], is_locked |-> DefaultReading.is_locked,
                                   battery_level |-> DefaultReading.battery_level]]

NoProbe == [kind |-> "none", current_status |-> <<>>]
Polling == [kind |-> "polling", current_status |-> <<>>]   \* the probe let the devices be polled

\* The outcome of retrieve_infos ("status") or of synchronize ("sync") that the
\* device loop has just dealt with, until the loop makes its next call.
NoneHandled == [op |-> "none", result |-> NoResponse]
Handled(op, result) == [op |-> op, result |-> result]

\* What a gateway method gave its caller: "True", "False", "dict" (the decoded
\* body), or "raised".
NoReturn == [verb |-> "none", value |-> "none"]

ObsInit ==
    [probe |-> NoProbe,           \* what this cycle's probe did
     reachable_before |-> TRUE,   \* _gateway_reachable when the cycle started
     events |-> {},               \* transition events logged in this cycle
     client_requests |-> FALSE,   \* the gateway client sent a request in this cycle
     since_request |-> TimeCap,   \* time since the gateway client last sent a request
     call_attempts |-> 0,         \* __http_request invocations of the current call
     call_33 |-> 0,               \* ko 33 answers to the current call
     call_ts_waits |-> 0,         \* time.sleep(1) taken by the current call
     backoffs |-> <<>>,           \* backoff waits of the current __http_request
     refused_seen |-> FALSE,      \* the current call met a refused connection
     refused_first |-> FALSE,     \* ... on its first HTTP request
     pending38 |-> FALSE,         \* a code 38 since the last synchronize call
     owe_retry |-> FALSE,         \* a synchronize succeeded, no status fetch since
     handled |-> NoneHandled,     \* the call outcome the device loop handled last
     prev_heavy |-> FALSE,        \* the previous call outside a cycle was a heavy one
     last_ok |-> [i \in DeviceIndex |-> DefaultReading],   \* the last reading fetched per device
     received |-> NoBody,         \* the body that answered the last request of a call
                                  \* made outside a cycle
     returned |-> NoReturn,       \* what the last call outside a cycle gave its caller
     polled |-> <<>>,             \* the devices fetched in this cycle, in order
     fetches |-> 0,               \* retrieve_infos calls made for the current device
     syncs |-> 0,                 \* synchronize calls made since the last of them
     timed |-> FALSE,             \* the clock of the devices phase is kept
     phase_time |-> 0,            \* time since the device loop was entered
     phase_waits |-> 0]           \* ... of which asyncio.sleep of the device loop

\* The observations of one call of the gateway client, and of one cycle, start over.
ResetCall(o) == [o EXCEPT !.call_attempts = 0, !.call_33 = 0,
                          !.call_ts_waits = 0, !.backoffs = <<>>,
                          !.refused_seen = FALSE, !.refused_first = FALSE,
                          !.received = NoBody]
ResetCycle(o) == [ResetCall(o) EXCEPT !.probe = NoProbe, !.reachable_before = TRUE,
                                      !.events = {}, !.client_requests = FALSE,
                                      !.owe_retry = FALSE, !.handled = NoneHandled,
                                      !.polled = <<>>]

Setup ==
    /\ pc = "idle"
    /\ gateway_reachable = TRUE
    /\ heap = NewHeap
    /\ devices = GetDevices
    /\ coordinator_data = GetDevices
    /\ entity_device = [i \in DeviceIndex |-> GetDevices.elems[i]]
    /\ dev = 0
    /\ attempt = 0
    /\ sync_attempt = 0
    /\ verb = "none"
    /\ ts_attempt = 0
    /\ http_attempt = 0
    /\ retry_delay = INITIAL_RETRY_DELAY
    /\ response = NoResponse
    /\ sleep_for = 0
    /\ sleep_kind = "none"
    /\ resume = "none"
    /\ time_since_last_request = TimeCap
    /\ since_sign = ONE_SECOND
    /\ ts_same = FALSE

\* The two executor threads that can be inside the gateway object at once: the
\* one that runs the cycle's retrieve_infos and the one that runs lock / unlock.
ThreadIds == {"cycle", "host"}
NoThread == [pc |-> "idle", verb |-> "none", wait |-> 0]

\* No entity method is running.
NoUi == [entry |-> "none",            \* the entity method
         has_sync |-> FALSE,           \* hasattr(self._device, 'sync')
         todo |-> <<>>,                \* device methods it has still to call
         calls |-> <<>>,               \* device methods it has called
         failed |-> FALSE,             \* a device method raised
         outcome |-> "none",           \* "pending", then "returned" or "raised"
         refresh |-> FALSE,            \* coordinator.async_request_refresh() was awaited
         attr_is_locked |-> "unknown"] \* TheKeysLockEntity._attr_is_locked

Init ==
    /\ Setup
    /\ obs = ObsInit
    /\ threads = [t \in ThreadIds |-> NoThread]
    /\ ui = NoUi
    /\ cancelled = "no"

\* ------------------------------------------------------------------- time
Sat(x) == Min(TimeCap, x)

\* The clock of the devices phase stops at eight seconds.
PhaseCap == 8 * ONE_SECOND

\* d ticks pass; o is the observation record to continue from.
Elapse(d, o) ==
    /\ since_sign' = Min(ONE_SECOND, since_sign + d)
    /\ obs' = [o EXCEPT !.since_request = Sat(o.since_request + d),
                        !.phase_time = IF o.timed THEN Min(PhaseCap, @ + d) ELSE @]

ElapseLast(d) == time_since_last_request' = Sat(time_since_last_request + d)

Latencies == 0..MaxLatency
IdleGaps == {0, MaxIdle, TimeCap}

\* ------------------------------------------------------- the refresh cycle
\* Every class the model raises derives from Exception.
ExceptionClasses == {"ConnectionError", "Timeout", "ConnectionResetError",
                     "RequestException", "RuntimeError", "AttributeError"}

\* except Exception as e  (the probe's handler)
ProbeCaught(e) == e.cls \in ExceptionClasses

\* A variant that compares the whole text: current_status == "Synchronizing".
IsSynchronizingExact(current_status) == current_status = <<"Synchronizing">>

\* "Synchronizing" in gateway_status.get("current_status", "")
IsSynchronizing(current_status) ==
    \E i \in 1..Len(current_status) : current_status[i] = "Synchronizing"

\* What the probe can do: requests.get or response.json() raises; or the body is
\* decoded, with a current_status text (<<>>: no such key); or the body is decoded
\* but is no dict of strings, so that the .get / the "in" test raises.
ProbeOutcomes ==
    {[kind |-> "raise", exc |-> e, current_status |-> <<>>] : e \in TransportErrors}
    \cup {[kind |-> "json", exc |-> NoExc, current_status |-> cs] :
             cs \in CurrentStatuses \cup {<<>>}}
    \cup {[kind |-> "json_bad", exc |-> Exc("AttributeError", FALSE), current_status |-> <<>>]}

\* A variant that returns a copy: return list(devices).
CycleResultCopy == [devices EXCEPT !.ref = @ + 1]

\* return devices
CycleResult == devices

\* The host calls async_update_data; gateway_host is configured or found on a lock.
StartCycle ==
    /\ pc = "idle"
    /\ UNCHANGED <<threads, ui, cancelled>>
    /\ \E d \in IdleGaps :
        /\ Elapse(d, [obs EXCEPT !.reachable_before = gateway_reachable])
        /\ ElapseLast(d)
    /\ pc' = "probe"
    /\ dev' = 1
    /\ attempt' = 0
    /\ sync_attempt' = 0
    /\ verb' = "none"
    /\ response' = NoResponse
    /\ UNCHANGED <<ts_same, gateway_reachable, heap, devices, coordinator_data, entity_device,
                   ts_attempt, http_attempt, retry_delay, sleep_for, sleep_kind, resume>>

\* A variant that probes through the client's light status method, after its
\* rate-limit wait.
ProbeWaitLight(since) ==
    IF since < DEFAULT_RATE_LIMIT_DELAY_LIGHT THEN DEFAULT_RATE_LIMIT_DELAY_LIGHT - since ELSE 0

\* lambda: requests.get(gateway_url, timeout=3): the probe is sent with requests
\* itself, not with TheKeysGateway.status, so nothing waits before it.
ProbeWait(since) == 0

\* Lines 64-107: requests.get(gateway_url, timeout=3), response.json(), the recovery
\* notice, the Synchronizing test, and the except clause around all of them.
Probe ==
    /\ pc = "probe"
    /\ UNCHANGED <<threads, ui, cancelled>>
    /\ \E out \in ProbeOutcomes, lat \in Latencies :
        LET got_json == out.kind # "raise"
            recovered == got_json /\ ~gateway_reachable
            reach1 == IF got_json THEN TRUE ELSE gateway_reachable
            raises == out.kind \in {"raise", "json_bad"}
            caught == raises /\ ProbeCaught(out.exc)
            warned == caught /\ reach1
            skip == caught \/ (~raises /\ IsSynchronizing(out.current_status))
            ev == (IF recovered THEN {"back_online"} ELSE {})
                  \cup (IF warned THEN {"warning"} ELSE {})
        IN  /\ gateway_reachable' = IF caught THEN FALSE ELSE reach1
            /\ pc' = IF raises /\ ~caught THEN "raised"
                     ELSE IF skip THEN "return" ELSE "device"
            /\ Elapse(ProbeWait(time_since_last_request) + lat,
                      [obs EXCEPT !.probe = [kind |-> out.kind,
                                             current_status |-> out.current_status],
                                  !.events = ev])
            /\ ElapseLast(ProbeWait(time_since_last_request) + lat)
    /\ UNCHANGED <<ts_same, heap, devices, coordinator_data, entity_device, dev, attempt,
                   sync_attempt, verb, ts_attempt, http_attempt, retry_delay, response,
                   sleep_for, sleep_kind, resume>>

\* for device in devices: ... for attempt in range(3):
NextDevice ==
    /\ pc = "device"
    /\ UNCHANGED <<threads, ui, cancelled>>
    /\ IF dev <= Len(devices.elems)
         THEN /\ pc' = "fetch"
              /\ attempt' = 0
         ELSE /\ pc' = "return"
              /\ attempt' = attempt
    /\ obs' = [obs EXCEPT !.probe = Polling, !.reachable_before = TRUE, !.events = {},
                          !.phase_time = IF dev = 1 THEN 0 ELSE @,
                          !.phase_waits = IF dev = 1 THEN 0 ELSE @]
    /\ UNCHANGED <<gateway_reachable, heap, devices, coordinator_data, entity_device, dev,
                   sync_attempt, verb, ts_attempt, http_attempt, retry_delay, response,
                   sleep_for, sleep_kind, resume, time_since_last_request, since_sign,
                   ts_same>>

\* The cycle hands its result to the DataUpdateCoordinator, which stores it as
\* coordinator.data.
Return ==
    /\ pc = "return"
    /\ UNCHANGED <<threads, ui, cancelled>>
    /\ pc' = "notify"
    /\ coordinator_data' = CycleResult
    /\ dev' = 0
    /\ UNCHANGED <<gateway_reachable, heap, devices, entity_device, attempt,
                   sync_attempt, verb, ts_attempt, http_attempt, retry_delay, response,
                   sleep_for, sleep_kind, resume, time_since_last_request, since_sign, ts_same, obs>>

\* for device in self.coordinator.data: if ... device.id == self._device.id
FindDevice(data, id) ==
    LET hits == {i \in 1..Len(data.elems) : heap[data.elems[i]].id = id}
    IN  IF hits = {} THEN 0
        ELSE data.elems[CHOOSE i \in hits : \A j \in hits : i <= j]

\* TheKeysLockEntity._handle_coordinator_update, for every lock entity.
HandleCoordinatorUpdate ==
    /\ pc = "notify"
    /\ UNCHANGED <<threads, ui, cancelled>>
    /\ pc' = "idle"
    /\ entity_device' =
         [e \in DeviceIndex |->
            LET found == FindDevice(coordinator_data, heap[entity_device[e]].id)
            IN  IF found = 0 THEN entity_device[e] ELSE found]
    /\ obs' = ResetCycle(obs)
    /\ UNCHANGED <<gateway_reachable, heap, devices, coordinator_data, dev, attempt,
                   sync_attempt, verb, ts_attempt, http_attempt, retry_delay, response,
                   sleep_for, sleep_kind, resume, time_since_last_request, since_sign,
                   ts_same>>

\* ------------------------------------------------------ the gateway client
\* The rate-limit class of each gateway method (lines 71-115).
LightVerbs == {"status", "update", "synchronize", "locker_synchronize", "locker_update"}
HeavyVerbs == {"locker_open", "locker_close", "locker_calibrate", "locker_status"}
\* A variant that gives every method the light class.
IsLightAlways(v) == TRUE

IsLight(v) == v \in LightVerbs

\* A variant that makes every call wait the heavy delay.
DelayHeavyOnly(light_operation) == DEFAULT_RATE_LIMIT_DELAY

\* delay = self._rate_limit_delay_light if light_operation else self._rate_limit_delay
Delay(light_operation) ==
    IF light_operation THEN DEFAULT_RATE_LIMIT_DELAY_LIGHT ELSE DEFAULT_RATE_LIMIT_DELAY

\* A variant that signs the open and close requests only.
AuthenticatedOpenClose(v) == v \in {"locker_open", "locker_close"}

\* The methods called with a share_code: their requests carry ts and hash.
Authenticated(v) == v \in {"locker_open", "locker_close", "locker_calibrate",
                           "locker_status", "locker_synchronize", "locker_update"}

\* Who catches what the verb raises or gets what it returns: the device loop of
\* the cycle (dev is its position), or a caller outside any cycle (dev = 0); or
\* nobody, when the task that awaited the executor job was cancelled.
Caller(v) == IF cancelled # "no" THEN "cancelled"
             ELSE IF dev = 0 THEN "after_verb"
             ELSE IF v = "synchronize" THEN "after_sync" ELSE "after_status"

\* One of the gateway methods of lines 71-115 is called while no cycle runs,
\* some time after the previous call.
GatewayCall ==
    /\ pc = "idle"
    /\ UNCHANGED <<threads, ui, cancelled>>
    /\ dev = 0
    /\ pc' = "rate_limit"
    /\ verb' \in LightVerbs \cup HeavyVerbs
    /\ response' = NoResponse
    /\ \E d \in IdleGaps :
        /\ Elapse(d, [ResetCall(obs) EXCEPT !.returned = NoReturn])
        /\ ElapseLast(d)
    /\ UNCHANGED <<gateway_reachable, heap, devices, coordinator_data, entity_device, dev,
                   attempt, sync_attempt, ts_attempt, http_attempt, retry_delay,
                   sleep_for, sleep_kind, resume, ts_same>>

\* The methods that return the decoded body; the others return a comparison.
BodyVerbs == {"status", "locker_status"}

\* return self.action(...)  /  return self.action(...)["status"] == "ok"
ReturnValue(v, body) ==
    IF v \in BodyVerbs THEN "dict"
    ELSE IF body.status = "ok" THEN "True" ELSE "False"

\* return self.action(...)["status"] == "ok", or the exception goes to the caller.
GatewayCallReturns ==
    /\ pc = "after_verb"
    /\ UNCHANGED <<threads, ui, cancelled>>
    /\ pc' = "idle"
    /\ verb' = "none"
    /\ response' = NoResponse
    /\ obs' = [ResetCall(obs) EXCEPT !.prev_heavy = verb \in HeavyVerbs,
                                     !.received = obs.received,
                                     !.returned =
                                         [verb |-> verb,
                                          value |-> IF response.kind = "exc" THEN "raised"
                                                    ELSE ReturnValue(verb, response.body)]]
    /\ UNCHANGED <<gateway_reachable, heap, devices, coordinator_data, entity_device, dev,
                   attempt, sync_attempt, ts_attempt, http_attempt, retry_delay,
                   sleep_for, sleep_kind, resume, time_since_last_request, since_sign, ts_same>>

\* The gateway method the lock's retrieve_infos calls (the lock device is described
\* by the interface documentation only).
StatusVerb == "locker_status"

\* await hass.async_add_executor_job(device.retrieve_infos)
RetrieveInfos ==
    /\ pc = "fetch"
    /\ UNCHANGED <<threads, ui, cancelled>>
    /\ pc' = "rate_limit"
    /\ verb' = StatusVerb
    /\ response' = NoResponse
    /\ obs' = [ResetCall(obs) EXCEPT !.owe_retry = FALSE, !.handled = NoneHandled,
                                     !.fetches = Min(@ + 1, STATUS_ATTEMPTS + 1), !.syncs = 0,
                                     !.polled = IF obs.fetches = 0 THEN Append(@, dev) ELSE @]
    /\ UNCHANGED <<gateway_reachable, heap, devices, coordinator_data, entity_device, dev,
                   attempt, sync_attempt, ts_attempt, http_attempt, retry_delay,
                   sleep_for, sleep_kind, resume, time_since_last_request, since_sign, ts_same>>

\* await hass.async_add_executor_job(device._gateway.synchronize)
Synchronize ==
    /\ pc = "sync"
    /\ UNCHANGED <<threads, ui, cancelled>>
    /\ pc' = "rate_limit"
    /\ verb' = "synchronize"
    /\ response' = NoResponse
    /\ obs' = [ResetCall(obs) EXCEPT !.pending38 = FALSE, !.handled = NoneHandled,
                                     !.syncs = @ + 1]
    /\ UNCHANGED <<gateway_reachable, heap, devices, coordinator_data, entity_device, dev,
                   attempt, sync_attempt, ts_attempt, http_attempt, retry_delay,
                   sleep_for, sleep_kind, resume, time_since_last_request, since_sign, ts_same>>

\* sleep_time = delay - time_since_last_request, when positive (lines 53-66)
SleepTime(light_operation, since) ==
    IF since < Delay(light_operation) THEN Delay(light_operation) - since ELSE 0

\* _rate_limit up to its time.sleep
RateLimit ==
    /\ pc = "rate_limit"
    /\ UNCHANGED <<threads, ui, cancelled>>
    /\ LET sleep_time == SleepTime(IsLight(verb), time_since_last_request)
       IN  IF sleep_time > 0
             THEN /\ pc' = "sleep"
                  /\ sleep_for' = sleep_time
                  /\ sleep_kind' = "rate_limit"
                  /\ resume' = "stamp"
             ELSE /\ pc' = "stamp"
                  /\ UNCHANGED <<sleep_for, sleep_kind, resume>>
    /\ UNCHANGED <<gateway_reachable, heap, devices, coordinator_data, entity_device, dev,
                   attempt, sync_attempt, verb, ts_attempt, http_attempt, retry_delay,
                   response, time_since_last_request, since_sign, ts_same, obs>>

\* self._last_request_time = time.time(), then action() enters its loop
Stamp ==
    /\ pc = "stamp"
    /\ UNCHANGED <<threads, ui, cancelled>>
    /\ pc' = "build"
    /\ time_since_last_request' = 0
    /\ ts_attempt' = 0
    /\ UNCHANGED <<gateway_reachable, heap, devices, coordinator_data, entity_device, dev,
                   attempt, sync_attempt, verb, http_attempt, retry_delay, response,
                   sleep_for, sleep_kind, resume, since_sign, ts_same, obs>>

\* What the call hands to its caller, and the locals of action() are gone; the
\* outcome of a job whose awaiting task was cancelled is dropped.
CallEnds(result) ==
    /\ pc' = Caller(verb)
    /\ response' = IF cancelled # "no" THEN NoResponse ELSE result
    /\ ts_attempt' = 0
    /\ http_attempt' = 0
    /\ retry_delay' = INITIAL_RETRY_DELAY
    /\ ts_same' = FALSE
    /\ UNCHANGED <<sleep_for, sleep_kind, resume>>

\* raise RuntimeError({"status": "ko", "code": 33, "error": "timestamp rejected ..."})
TimestampRejected ==
    [cls |-> "RuntimeError", refused |-> FALSE, code |-> 33, status_first |-> TRUE]

\* timestamp = str(int(time.time())): two timestamps taken less than a second
\* apart can be the same second; taken a second or more apart they differ.
SameSecondPossible(elapsed) == elapsed < ONE_SECOND

\* Lines 144-159: the payload of this attempt, signed with the current second when
\* a share_code is given; then __http_request starts (lines 186-188).
BuildRequest ==
    /\ pc = "build"
    /\ UNCHANGED <<threads, ui, cancelled>>
    /\ IF ts_attempt < max_ts_retries
         THEN /\ pc' = "http"
              /\ http_attempt' = 0
              /\ retry_delay' = INITIAL_RETRY_DELAY
              /\ IF Authenticated(verb)
                   THEN /\ since_sign' = 0
                        /\ ts_same' \in IF SameSecondPossible(since_sign) THEN BOOLEAN ELSE {FALSE}
                   ELSE UNCHANGED <<since_sign, ts_same>>
              /\ obs' = [obs EXCEPT !.call_attempts = @ + 1, !.backoffs = <<>>]
              /\ UNCHANGED <<ts_attempt, response, sleep_for, sleep_kind, resume>>
         ELSE /\ CallEnds(Raised(TimestampRejected))
              /\ UNCHANGED <<since_sign, obs>>
    /\ UNCHANGED <<gateway_reachable, heap, devices, coordinator_data, entity_device, dev,
                   attempt, sync_attempt, verb, time_since_last_request>>

\* "Connection refused" in error_str or "Errno 111" in error_str, inside
\* A variant that never recognises the refused connection.
IsRefusedNever(e) == FALSE

\* except requests.exceptions.ConnectionError
IsRefused(e) == e.cls = "ConnectionError" /\ e.refused

\* The errors the two retrying except clauses take (lines 202, 229).
IsRetryable(e) == e.cls \in {"ConnectionError", "Timeout", "ConnectionResetError"}

\* A variant without the doubling.
NextRetryDelaySame(d) == d

\* retry_delay *= 2
NextRetryDelay(d) == d * 2

HttpOutcomes ==
    {Returned(b) : b \in OkBodies \cup KoBodies} \cup {Raised(e) : e \in TransportErrors}

\* A variant that takes code 34 for a timestamp error as well.
RetryTimestamp33Or34(error_code, ts_att) ==
    error_code \in {33, 34} /\ ts_att < max_ts_retries - 1

\* A variant that is off by one: ts_attempt < max_ts_retries.
RetryTimestampOffByOne(error_code, ts_att) == error_code = 33 /\ ts_att < max_ts_retries

\* error_code == 33 and ts_attempt < max_ts_retries - 1
RetryTimestamp(error_code, ts_att) == error_code = 33 /\ ts_att < max_ts_retries - 1

\* if "status" not in response_data: response_data["status"] = "ok"
StatusOf(body) == IF body.status = "absent" THEN "ok" ELSE body.status

\* A variant that compares with the upper-case word.
IsKoUpperCase(status) == status = "KO"

\* if response_data["status"] == "ko"
IsKo(status) == status = "ko"

\* One pass of the loop of __http_request (lines 190-250): the request is sent and
\* it fails, to be retried after a backoff or raised; or its decoded body is
\* returned to action() (lines 159-176), which returns it, raises it as a
\* RuntimeError or, on code 33, pauses and starts over with a new timestamp.
HttpRequest ==
    /\ pc = "http"
    /\ UNCHANGED <<threads, ui, cancelled>>
    /\ \E out \in HttpOutcomes, lat \in Latencies :
        LET refused == out.kind = "exc" /\ out.exc.cls = "ConnectionError" /\ out.exc.refused
            is33 == out.kind = "body" /\ out.body.status = "ko" /\ out.body.code = 33
            o1 == [obs EXCEPT !.client_requests = TRUE,
                              !.since_request = 0,
                              !.call_33 = IF is33 THEN @ + 1 ELSE @,
                              !.received = IF dev = 0 THEN out.body ELSE @,
                              !.refused_seen = refused,
                              !.refused_first = refused /\ ts_attempt = 0 /\ http_attempt = 0]
        IN  /\ Elapse(lat, o1)
            /\ ElapseLast(lat)
            /\ IF out.kind = "exc"
                 THEN IF ~IsRefused(out.exc) /\ IsRetryable(out.exc)
                         /\ http_attempt < max_retries - 1
                        THEN /\ pc' = "sleep"
                             /\ sleep_for' = retry_delay
                             /\ sleep_kind' = "backoff"
                             /\ resume' = "http"
                             /\ retry_delay' = NextRetryDelay(retry_delay)
                             /\ http_attempt' = http_attempt + 1
                             /\ UNCHANGED <<ts_attempt, ts_same, response>>
                        ELSE CallEnds(out)
                 ELSE IF IsKo(StatusOf(out.body))
                        THEN IF RetryTimestamp(out.body.code, ts_attempt)
                               THEN /\ pc' = "sleep"
                                    /\ sleep_for' = TS_RETRY_SLEEP
                                    /\ sleep_kind' = "ts_retry"
                                    /\ resume' = "build"
                                    /\ ts_attempt' = ts_attempt + 1
                                    /\ UNCHANGED <<http_attempt, retry_delay, ts_same, response>>
                               ELSE CallEnds(Raised(RuntimeErrorOf(out.body)))
                        ELSE CallEnds(Returned([out.body EXCEPT !.status = StatusOf(out.body)]))
    /\ UNCHANGED <<gateway_reachable, heap, devices, coordinator_data, entity_device, dev,
                   attempt, sync_attempt, verb>>

\* time.sleep / asyncio.sleep: the pending wait elapses.
Sleep ==
    /\ pc = "sleep"
    /\ UNCHANGED <<threads, ui, cancelled>>
    /\ pc' = resume
    /\ Elapse(sleep_for,
              [obs EXCEPT !.backoffs = IF sleep_kind = "backoff" THEN Append(@, sleep_for) ELSE @,
                          !.call_ts_waits = IF sleep_kind = "ts_retry" THEN @ + 1 ELSE @,
                          !.phase_waits =
                              IF obs.timed /\ sleep_kind \in {"busy", "sync_wait", "inter_device"}
                                THEN Min(PhaseCap, @ + sleep_for) ELSE @])
    /\ ElapseLast(sleep_for)
    /\ sleep_for' = 0
    /\ sleep_kind' = "none"
    /\ resume' = "none"
    /\ UNCHANGED <<ts_same, gateway_reachable, heap, devices, coordinator_data, entity_device, dev,
                   attempt, sync_attempt, verb, ts_attempt, http_attempt, retry_delay,
                   response>>

\* ------------------------------------------------- the per-device policy
\* except (ConnectionError, TimeoutError, OSError): the exceptions of requests
\* derive from IOError, which is OSError.
NetworkClause(e) ==
    e.cls \in {"ConnectionError", "Timeout", "ConnectionResetError", "RequestException"}

\* except Exception as e
GenericClause(e) == e.cls \in ExceptionClasses

\* A variant that reads the code of every ko body, wherever its status key is.
ErrorCodeAnyOrder(e) == IF e.cls = "RuntimeError" THEN e.code ELSE NoCode

\* Lines 131-145: the code is read back from str(e), which is the repr of the ko
\* body when e is the client's RuntimeError; it is found only when the text holds
\* "{'status':", that is when status is the first key of the body.
ErrorCode(e) == IF e.cls = "RuntimeError" /\ e.status_first THEN e.code ELSE NoCode

\* A variant that knows code 500 only.
IsBusy500Only(error_code) == error_code = 500

\* if error_code in (400, 500)
IsBusy(error_code) == error_code \in {400, 500}

\* if error_code == 38
IsClockInvalid(error_code) == error_code = 38

\* A variant that retries on every attempt.
RetryTransientAlways(error_code, att) == error_code \in {33, 34}

\* if error_code in [33, 34] and attempt == 0
RetryTransient(error_code, att) == error_code \in {33, 34} /\ att = 0

\* retrieve_infos stores the answer of locker_status in the lock object.
RetrieveInfosApply(h, o, reading) ==
    [h EXCEPT ![o].is_locked = reading.is_locked,
              ![o].battery_level = reading.battery_level]

\* A variant that lets one more pass through: range(4).
AfterContinueOneMore(att) == IF att + 1 <= STATUS_ATTEMPTS THEN "fetch" ELSE "inter"

\* continue: the next pass of "for attempt in range(3)", or the end of the loop
AfterContinue(att) == IF att + 1 < STATUS_ATTEMPTS THEN "fetch" ELSE "inter"

\* A variant that gives the cycle up: return devices in place of break.
AfterNetworkErrorReturn(att) == "return"

\* A variant that fetches again without counting the attempt.
AfterNetworkErrorRefetch(att) == "fetch"

\* A variant that goes on with the attempt loop: continue in place of break.
AfterNetworkErrorContinue(att) == AfterContinue(att)

\* break  (line 127): the attempt loop is left
AfterNetworkError(att) == "inter"

\* Lines 115-217: what the coordinator does with the outcome of retrieve_infos.
HandleStatus ==
    /\ pc = "after_status"
    /\ UNCHANGED <<threads, ui, cancelled>>
    /\ LET e == response.exc
           error_code == ErrorCode(e)
           o == devices.elems[dev]
       IN  IF response.kind = "body"
             THEN /\ heap' = RetrieveInfosApply(heap, o, response.body.reading)
                  /\ pc' = "inter"
                  /\ UNCHANGED <<attempt, sync_attempt, sleep_for, sleep_kind, resume>>
             ELSE IF NetworkClause(e)
             THEN /\ pc' = AfterNetworkError(attempt)
                  /\ UNCHANGED <<heap, attempt, sync_attempt, sleep_for, sleep_kind, resume>>
             ELSE IF ~GenericClause(e)
             THEN /\ pc' = "raised"
                  /\ UNCHANGED <<heap, attempt, sync_attempt, sleep_for, sleep_kind, resume>>
             ELSE IF IsBusy(error_code)
             THEN /\ pc' = "sleep"
                  /\ sleep_for' = BUSY_SLEEP
                  /\ sleep_kind' = "busy"
                  /\ resume' = AfterContinue(attempt)
                  /\ attempt' = attempt + 1
                  /\ UNCHANGED <<heap, sync_attempt>>
             ELSE IF IsClockInvalid(error_code)
             THEN /\ pc' = "sync"
                  /\ sync_attempt' = 0
                  /\ UNCHANGED <<heap, attempt, sleep_for, sleep_kind, resume>>
             ELSE IF RetryTransient(error_code, attempt)
             THEN /\ pc' = AfterContinue(attempt)
                  /\ attempt' = attempt + 1
                  /\ UNCHANGED <<heap, sync_attempt, sleep_for, sleep_kind, resume>>
             ELSE /\ pc' = "inter"
                  /\ UNCHANGED <<heap, attempt, sync_attempt, sleep_for, sleep_kind, resume>>
    /\ obs' = [ResetCall(obs) EXCEPT !.pending38 = response.kind = "exc" /\ response.exc.code = 38
                                                  /\ response.exc.status_first,
                                     !.handled = Handled("status", response),
                                     !.last_ok = IF response.kind = "body"
                                                   THEN [@ EXCEPT ![dev] = response.body.reading]
                                                   ELSE @]
    /\ response' = NoResponse
    /\ UNCHANGED <<gateway_reachable, devices, coordinator_data, entity_device, dev, verb,
                   ts_attempt, http_attempt, retry_delay,
                   time_since_last_request, since_sign, ts_same>>

\* A variant that catches the client's application error only: except RuntimeError.
SyncClauseRuntimeOnly(e) == e.cls = "RuntimeError"

\* except Exception as sync_err
SyncClause(e) == e.cls \in ExceptionClasses

\* A variant that waits after the last failure as well.
SyncRetryAlways(sync_att) == sync_att < SYNC_ATTEMPTS

\* if sync_attempt < 2
SyncRetry(sync_att) == sync_att < SYNC_ATTEMPTS - 1

\* Lines 170-196: the outcome of one synchronize call of the code-38 path.
HandleSync ==
    /\ pc = "after_sync"
    /\ UNCHANGED <<threads, ui, cancelled>>
    /\ IF response.kind = "body"
         THEN /\ pc' = AfterContinue(attempt)
              /\ attempt' = attempt + 1
              /\ UNCHANGED <<sync_attempt, sleep_for, sleep_kind, resume>>
         ELSE IF ~SyncClause(response.exc)
         THEN /\ pc' = "raised"
              /\ UNCHANGED <<attempt, sync_attempt, sleep_for, sleep_kind, resume>>
         ELSE IF SyncRetry(sync_attempt)
         THEN /\ pc' = "sleep"
              /\ sleep_for' = SYNC_SLEEP
              /\ sleep_kind' = "sync_wait"
              /\ resume' = "sync"
              /\ sync_attempt' = sync_attempt + 1
              /\ UNCHANGED attempt
         ELSE /\ pc' = "inter"
              /\ UNCHANGED <<attempt, sync_attempt, sleep_for, sleep_kind, resume>>
    /\ obs' = [ResetCall(obs) EXCEPT !.owe_retry = response.kind = "body",
                                     !.handled = Handled("sync", response)]
    /\ response' = NoResponse
    /\ UNCHANGED <<gateway_reachable, heap, devices, coordinator_data, entity_device, dev,
                   verb, ts_attempt, http_attempt, retry_delay,
                   time_since_last_request, since_sign, ts_same>>

\* await asyncio.sleep(0.5), then the next device
InterDevice ==
    /\ pc = "inter"
    /\ UNCHANGED <<threads, ui, cancelled>>
    /\ pc' = "sleep"
    /\ sleep_for' = INTER_DEVICE_SLEEP
    /\ sleep_kind' = "inter_device"
    /\ resume' = "device"
    /\ dev' = dev + 1
    /\ obs' = [obs EXCEPT !.owe_retry = FALSE, !.handled = NoneHandled,
                          !.fetches = 0, !.syncs = 0]
    /\ UNCHANGED <<gateway_reachable, heap, devices, coordinator_data, entity_device,
                   attempt, sync_attempt, verb, ts_attempt, http_attempt, retry_delay,
                   response, time_since_last_request, since_sign, ts_same>>

Next ==
    \/ StartCycle
    \/ Probe
    \/ NextDevice
    \/ RetrieveInfos
    \/ Synchronize
    \/ RateLimit
    \/ Stamp
    \/ BuildRequest
    \/ HttpRequest
    \/ Sleep
    \/ HandleStatus
    \/ HandleSync
    \/ InterDevice
    \/ Return
    \/ HandleCoordinatorUpdate

Spec == Init /\ [][Next]_vars

\* The gateway client alone: calls of any verb, one at a time, no cycle running.
GatewayNext ==
    \/ GatewayCall
    \/ RateLimit
    \/ Stamp
    \/ BuildRequest
    \/ HttpRequest
    \/ Sleep
    \/ GatewayCallReturns

GatewaySpec == Init /\ [][GatewayNext]_vars

\* One installation's cycles in which the probe lets the devices be polled, the
\* first lock's status fetch succeeds on its first attempt, and the second lock's
\* fetch is answered with the busy code 500 once and succeeds on the next attempt.
\* The answers are the gateway's; what the program does with them is Next.
ScenarioAnswers ==
    /\ pc # "raised"
    /\ pc = "return" => dev > Len(devices.elems)
    /\ pc = "after_status" =>
          IF dev = 1 \/ attempt = 1
            THEN response.kind = "body"
            ELSE /\ attempt = 0
                 /\ response.kind = "exc"
                 /\ response.exc = RuntimeErrorOf(Body("ko", 500, TRUE, DefaultReading))

ScenarioInit ==
    /\ Setup
    /\ obs = [ObsInit EXCEPT !.timed = TRUE]
    /\ threads = [t \in ThreadIds |-> NoThread]
    /\ ui = NoUi
    /\ cancelled = "no"

ScenarioNext == Next /\ ScenarioAnswers'

ScenarioSpec == ScenarioInit /\ [][ScenarioNext]_vars

\* ------------------------------------------------------------- progress
\* One cycle under the assumption that what can happen next does happen: the
\* event loop resumes the coroutine, every sleep ends, and every HTTP exchange
\* ends with a response or an exception.
CycleNext ==
    \/ StartCycle
    \/ Probe
    \/ NextDevice
    \/ RetrieveInfos
    \/ Synchronize
    \/ RateLimit
    \/ Stamp
    \/ BuildRequest
    \/ HttpRequest
    \/ Sleep
    \/ HandleStatus
    \/ HandleSync
    \/ InterDevice
    \/ Return

FairSpec == Init /\ [][CycleNext]_vars /\ WF_vars(CycleNext)

\* ---------------------------------------------------------- cancellation
\* The waits of the coroutine itself, await asyncio.sleep(...), and the waits of
\* the gateway client, time.sleep(...) inside an executor job.
AsyncSleeps == {"busy", "sync_wait", "inter_device"}
ThreadSleeps == {"rate_limit", "backoff", "ts_retry"}

\* The host cancels the task of the cycle while a wait is pending.  In an
\* asyncio.sleep the coroutine gets CancelledError, which no except Exception
\* clause catches, and the cycle is over.  In a time.sleep the coroutine is
\* suspended in await hass.async_add_executor_job(...): it gets CancelledError as
\* well, but the job is running in its thread and runs on to its end.
Cancel ==
    /\ pc = "sleep"
    /\ dev >= 1
    /\ cancelled = "no"
    /\ cancelled' = sleep_kind
    /\ IF sleep_kind \in AsyncSleeps
         THEN /\ pc' = "cancelled"
              /\ sleep_for' = 0
              /\ sleep_kind' = "none"
              /\ resume' = "none"
         ELSE UNCHANGED <<pc, sleep_for, sleep_kind, resume>>
    /\ UNCHANGED <<gateway_reachable, heap, devices, coordinator_data, entity_device, dev,
                   attempt, sync_attempt, verb, ts_attempt, http_attempt, retry_delay,
                   response, time_since_last_request, since_sign, ts_same, obs, threads, ui>>

\* The first cycle after setup, which the host may cancel in any of its waits.
CancelNext ==
    \/ StartCycle
    \/ Probe
    \/ NextDevice
    \/ RetrieveInfos
    \/ Synchronize
    \/ RateLimit
    \/ Stamp
    \/ BuildRequest
    \/ HttpRequest
    \/ Sleep
    \/ HandleStatus
    \/ HandleSync
    \/ InterDevice
    \/ Return
    \/ Cancel

CancelSpec == Init /\ [][CancelNext]_vars

\* ------------------------------------------------- two executor threads
\* The cycle's retrieve_infos runs as an executor job (__init__.py, line 116) and
\* the lock entity's lock / unlock run as executor jobs of the host; both call
\* methods of the one gateway object.  Each thread runs _rate_limit and then
\* sends; the steps of the two interleave freely and time passes between them.
ThreadVerbs(t) == IF t = "cycle" THEN {StatusVerb} ELSE {"locker_open", "locker_close"}

\* A thread enters a gateway method.
ThreadEnter(t) ==
    /\ threads[t].pc = "idle"
    /\ \E v \in ThreadVerbs(t) :
         threads' = [threads EXCEPT ![t] = [pc |-> "rate_limit", verb |-> v, wait |-> 0]]
    /\ UNCHANGED <<pc, gateway_reachable, heap, devices, coordinator_data, entity_device, dev,
                   attempt, sync_attempt, verb, ts_attempt, http_attempt, retry_delay, response,
                   sleep_for, sleep_kind, resume, time_since_last_request, since_sign, ts_same,
                   obs, ui, cancelled>>

\* Lines 53-65: the thread reads self._last_request_time and works out its sleep.
ThreadReadClock(t) ==
    /\ threads[t].pc = "rate_limit"
    /\ LET sleep_time == SleepTime(IsLight(threads[t].verb), time_since_last_request)
       IN  threads' = [threads EXCEPT ![t].pc = IF sleep_time > 0 THEN "sleep" ELSE "stamp",
                                      ![t].wait = sleep_time]
    /\ UNCHANGED <<pc, gateway_reachable, heap, devices, coordinator_data, entity_device, dev,
                   attempt, sync_attempt, verb, ts_attempt, http_attempt, retry_delay, response,
                   sleep_for, sleep_kind, resume, time_since_last_request, since_sign, ts_same,
                   obs, ui, cancelled>>

\* Line 66: time.sleep(sleep_time) is over.
ThreadWake(t) ==
    /\ threads[t].pc = "sleep"
    /\ threads[t].wait = 0
    /\ threads' = [threads EXCEPT ![t].pc = "stamp"]
    /\ UNCHANGED <<pc, gateway_reachable, heap, devices, coordinator_data, entity_device, dev,
                   attempt, sync_attempt, verb, ts_attempt, http_attempt, retry_delay, response,
                   sleep_for, sleep_kind, resume, time_since_last_request, since_sign, ts_same,
                   obs, ui, cancelled>>

\* Line 68: self._last_request_time = time.time()
ThreadStamp(t) ==
    /\ threads[t].pc = "stamp"
    /\ threads' = [threads EXCEPT ![t].pc = "send"]
    /\ time_since_last_request' = 0
    /\ UNCHANGED <<pc, gateway_reachable, heap, devices, coordinator_data, entity_device, dev,
                   attempt, sync_attempt, verb, ts_attempt, http_attempt, retry_delay, response,
                   sleep_for, sleep_kind, resume, since_sign, ts_same, obs, ui, cancelled>>

\* session.post(full_url, data=data, timeout=timeout): the request is on the wire.
ThreadSend(t) ==
    /\ threads[t].pc = "send"
    /\ threads' = [threads EXCEPT ![t].pc = "in_flight", ![t].wait = REQUEST_TIMEOUT]
    /\ UNCHANGED <<pc, gateway_reachable, heap, devices, coordinator_data, entity_device, dev,
                   attempt, sync_attempt, verb, ts_attempt, http_attempt, retry_delay, response,
                   sleep_for, sleep_kind, resume, time_since_last_request, since_sign, ts_same,
                   obs, ui, cancelled>>

\* The response arrives, or the request fails or times out, and the method ends.
ThreadReceive(t) ==
    /\ threads[t].pc = "in_flight"
    /\ threads' = [threads EXCEPT ![t] = NoThread]
    /\ UNCHANGED <<pc, gateway_reachable, heap, devices, coordinator_data, entity_device, dev,
                   attempt, sync_attempt, verb, ts_attempt, http_attempt, retry_delay, response,
                   sleep_for, sleep_kind, resume, time_since_last_request, since_sign, ts_same,
                   obs, ui, cancelled>>

\* Half a second passes for both threads; a request is not in flight for longer
\* than its timeout.
Tick ==
    /\ \A t \in ThreadIds : threads[t].pc = "in_flight" => threads[t].wait > 0
    /\ \E t \in ThreadIds : threads[t].pc # "idle"
    /\ threads' = [t \in ThreadIds |->
                     IF threads[t].pc \in {"sleep", "in_flight"} /\ threads[t].wait > 0
                       THEN [threads[t] EXCEPT !.wait = @ - 1]
                       ELSE threads[t]]
    /\ ElapseLast(1)
    /\ UNCHANGED <<pc, gateway_reachable, heap, devices, coordinator_data, entity_device, dev,
                   attempt, sync_attempt, verb, ts_attempt, http_attempt, retry_delay, response,
                   sleep_for, sleep_kind, resume, since_sign, ts_same, obs, ui, cancelled>>

ThreadsNext ==
    \/ \E t \in ThreadIds : ThreadEnter(t)
    \/ \E t \in ThreadIds : ThreadReadClock(t)
    \/ \E t \in ThreadIds : ThreadWake(t)
    \/ \E t \in ThreadIds : ThreadStamp(t)
    \/ \E t \in ThreadIds : ThreadSend(t)
    \/ \E t \in ThreadIds : ThreadReceive(t)
    \/ Tick

ThreadsSpec == Init /\ [][ThreadsNext]_vars

\* ------------------------------------------ entity methods and buttons
\* The methods the host runs for the user: lock and unlock of the lock entity,
\* its calibrate and sync services, and the presses of the two buttons.
Entries == {"lock", "unlock", "calibrate_service", "sync_service",
            "calibrate_button", "sync_button"}
SyncEntries == {"sync_service", "sync_button"}

\* if hasattr(self._device, 'calibrate'): ... else: warning
CalibrateOps(has_calibrate) == IF has_calibrate THEN <<"calibrate">> ELSE <<>>

\* A variant with two ifs in place of if / elif.
SyncOpsBoth(has_sync, has_retrieve_infos) ==
    (IF has_sync THEN <<"sync">> ELSE <<>>)
    \o (IF has_retrieve_infos THEN <<"retrieve_infos">> ELSE <<>>)

\* if hasattr(self._device, 'sync'): ... elif hasattr(self._device,
\* 'retrieve_infos'): ... else: warning
SyncOps(has_sync, has_retrieve_infos) ==
    IF has_sync THEN <<"sync">>
    ELSE IF has_retrieve_infos THEN <<"retrieve_infos">>
    ELSE <<>>

\* The device methods an entity method calls, in order.  A lock has calibrate
\* and retrieve_infos; whether it has sync is open.
EntryOps(entry, has_sync) ==
    CASE entry = "lock" -> <<"close">>
      [] entry = "unlock" -> <<"open">>
      [] entry \in {"calibrate_service", "calibrate_button"} -> CalibrateOps(TRUE)
      [] entry \in SyncEntries -> SyncOps(has_sync, TRUE)

\* The gateway method behind each device method (the lock device is described by
\* the interface documentation only).
DeviceVerb(op) ==
    CASE op = "open" -> "locker_open"
      [] op = "close" -> "locker_close"
      [] op = "calibrate" -> "locker_calibrate"
      [] op = "sync" -> "locker_synchronize"
      [] op = "retrieve_infos" -> StatusVerb

\* The method wraps its calls in try / except Exception; the except clause ends
\* with raise.
Catches(entry) == entry \notin {"lock", "unlock"}
Reraises(entry) == entry \in {"calibrate_service", "sync_service"}

\* await self.coordinator.async_request_refresh(): after the calibrate call of
\* the calibrate button, and at the end of the try block of the sync button.
RequestsRefresh(entry) == entry \in {"calibrate_button", "sync_button"}

\* The host runs one of the methods for an entity, some time after the last one.
Press ==
    /\ pc = "idle"
    /\ dev = 0
    /\ UNCHANGED <<threads, cancelled>>
    /\ \E e \in Entries :
         \E hs \in IF e \in SyncEntries THEN BOOLEAN ELSE {FALSE} :
            ui' = [NoUi EXCEPT !.entry = e, !.has_sync = hs, !.todo = EntryOps(e, hs),
                               !.outcome = "pending",
                               !.attr_is_locked = ui.attr_is_locked]
    /\ pc' = "ui"
    /\ \E d \in IdleGaps :
        /\ Elapse(d, ResetCall(obs))
        /\ ElapseLast(d)
    /\ UNCHANGED <<gateway_reachable, heap, devices, coordinator_data, entity_device, dev,
                   attempt, sync_attempt, verb, ts_attempt, http_attempt, retry_delay,
                   response, sleep_for, sleep_kind, resume, ts_same>>

\* self._device.close() / open(), or the executor job of calibrate, sync or
\* retrieve_infos: the device method calls its gateway method.
DeviceCall ==
    /\ pc = "ui"
    /\ UNCHANGED <<threads, cancelled>>
    /\ ui.todo # <<>>
    /\ pc' = "rate_limit"
    /\ verb' = DeviceVerb(Head(ui.todo))
    /\ response' = NoResponse
    /\ ui' = [ui EXCEPT !.todo = Tail(@), !.calls = Append(@, Head(ui.todo))]
    /\ obs' = ResetCall(obs)
    /\ UNCHANGED <<gateway_reachable, heap, devices, coordinator_data, entity_device, dev,
                   attempt, sync_attempt, ts_attempt, http_attempt, retry_delay,
                   sleep_for, sleep_kind, resume, time_since_last_request, since_sign, ts_same>>

\* The device method returns, and the entity method goes on; or it raises, and
\* the method's except clause, if it has one, logs the error and raises it again
\* or not.
DeviceCallEnds ==
    /\ pc = "after_verb"
    /\ UNCHANGED <<threads, cancelled>>
    /\ IF response.kind = "exc"
         THEN /\ pc' = "idle"
              /\ ui' = [ui EXCEPT !.todo = <<>>, !.failed = TRUE,
                                  !.outcome = IF Catches(ui.entry) /\ ~Reraises(ui.entry)
                                                THEN "returned" ELSE "raised"]
         ELSE /\ pc' = "ui"
              /\ ui' = ui
    /\ verb' = "none"
    /\ response' = NoResponse
    /\ obs' = ResetCall(obs)
    /\ UNCHANGED <<gateway_reachable, heap, devices, coordinator_data, entity_device, dev,
                   attempt, sync_attempt, ts_attempt, http_attempt, retry_delay,
                   sleep_for, sleep_kind, resume, time_since_last_request, since_sign, ts_same>>

\* The rest of the method after its calls: _attr_is_locked of lock / unlock, the
\* refresh request of the buttons; then it returns.
EntryReturns ==
    /\ pc = "ui"
    /\ UNCHANGED <<threads, cancelled>>
    /\ ui.todo = <<>>
    /\ pc' = "idle"
    /\ ui' = [ui EXCEPT !.outcome = "returned",
                        !.refresh = RequestsRefresh(ui.entry),
                        !.attr_is_locked = IF ui.entry = "lock" THEN "locked"
                                           ELSE IF ui.entry = "unlock" THEN "unlocked"
                                           ELSE @]
    /\ UNCHANGED <<gateway_reachable, heap, devices, coordinator_data, entity_device, dev,
                   attempt, sync_attempt, verb, ts_attempt, http_attempt, retry_delay,
                   response, sleep_for, sleep_kind, resume, time_since_last_request,
                   since_sign, ts_same, obs>>

UiNext ==
    \/ Press
    \/ DeviceCall
    \/ RateLimit
    \/ Stamp
    \/ BuildRequest
    \/ HttpRequest
    \/ Sleep
    \/ DeviceCallEnds
    \/ EntryReturns

UiSpec == Init /\ [][UiNext]_vars

\* ================================================================ properties
AfterPcs == {"after_status", "after_sync", "after_verb"}

\* The text of the probe's current_status holds the word Synchronizing.
ReportsSynchronizing(current_status) ==
    "Synchronizing" \in {current_status[i] : i \in DOMAIN current_status}

\* This cycle's probe raised, or answered with a Synchronizing status.
ProbeSkipped ==
    \/ obs.probe.kind \in {"raise", "json_bad"}
    \/ obs.probe.kind = "json" /\ ReportsSynchronizing(obs.probe.current_status)

\* C1: in a cycle whose probe fails or reports Synchronizing, the gateway client
\* sends no request, no field of any device changes, and the cycle hands back the
\* collection it started with.
C1_ProbeSkipsDevices ==
    [][ProbeSkipped' =>
         /\ pc' \in {"return", "notify"}
         /\ ~obs'.client_requests
         /\ heap' = heap
         /\ devices' = devices
         /\ pc' = "notify" => coordinator_data' = devices]_vars

\* A cycle ended on a Synchronizing probe and has handed back its collection.
C1_Witness ==
    /\ pc = "notify"
    /\ obs.probe.kind = "json"
    /\ ReportsSynchronizing(obs.probe.current_status)
    /\ Len(obs.probe.current_status) > 1
    /\ coordinator_data = devices

\* C2: a cycle logs the unreachable warning exactly when its probe fails while the
\* gateway counted as reachable, and the back-online notice exactly when its probe
\* succeeds while the gateway counted as unreachable.
C2_OneNoticePerTransition ==
    LET failed == obs.probe.kind \in {"raise", "json_bad"}
    IN  obs.probe.kind \in {"raise", "json", "json_bad"} =>
          /\ "warning" \in obs.events <=> (failed /\ obs.reachable_before)
          /\ "back_online" \in obs.events <=> (~failed /\ ~obs.reachable_before)

\* C3: no step of a cycle lets an exception out, and a device's fields change only
\* when its own status fetch succeeded; the cycle's result is the device collection.
C3_CycleNeverRaises ==
    [][/\ pc' # "raised"
       /\ heap' # heap =>
            /\ pc = "after_status"
            /\ response.kind = "body"
            /\ \A o \in DOMAIN heap : o # devices.elems[dev] => heap'[o] = heap[o]
       /\ pc' = "notify" => coordinator_data' = devices]_vars

\* A cycle polled the devices, every call failed, a synchronize call among them
\* with a transport error, and the cycle returns with the devices as they were.
C3_Witness ==
    /\ pc = "after_sync"
    /\ response.kind = "exc"
    /\ response.exc.cls \in {"Timeout", "ConnectionError"}
    /\ sync_attempt = SYNC_ATTEMPTS - 1
    /\ dev = Len(devices.elems)
    /\ heap = NewHeap

\* C4: the coordinator's data is always the collection made at setup, with the
\* same objects under the same ids, and every lock entity holds the object of its
\* lock, which is the one the polls update.
C4_SameCollection ==
    /\ devices = GetDevices
    /\ coordinator_data = GetDevices
    /\ \A o \in DOMAIN heap : heap[o].id = LockIds[o]
    /\ \A e \in DeviceIndex : entity_device[e] = GetDevices.elems[e]

\* After a completed cycle a lock entity reads fresh data through its reference.
C4_Witness ==
    /\ pc = "idle"
    /\ heap[entity_device[1]].battery_level # DefaultReading.battery_level
    /\ coordinator_data.ref = GetDevices.ref

\* The delay of the class of a gateway method, as the interface documents it.
ClassDelay(v) ==
    IF v \in {"locker_open", "locker_close", "locker_calibrate", "locker_status"}
      THEN 5 * ONE_SECOND
      ELSE 1 * ONE_SECOND

\* C5, as stated: whenever the gateway client is about to send a request, the
\* first of a call or a later one, the delay of the method's class has passed
\* since the client's previous request.
C5_EveryRequestRateLimited ==
    pc = "http" => obs.since_request >= ClassDelay(verb)

\* C5, amended: when a call leaves the rate limiter to send its first request,
\* the delay of its method's class has passed since the previous call left it.
C5_FirstRequestRateLimited ==
    pc = "stamp" => time_since_last_request >= ClassDelay(verb)

\* A heavy call that the rate limiter held back for the rest of the delay.
C5_Witness ==
    /\ pc = "stamp"
    /\ verb = "locker_open"
    /\ time_since_last_request = 5 * ONE_SECOND
    /\ obs.since_request < 5 * ONE_SECOND

\* C6: a call is answered ko 33 at most three times; after the third the call has
\* ended with the application error that carries a ko 33 body, having made three
\* protocol attempts and waited twice.
C6_ThreeTimestampRejections ==
    /\ obs.call_33 <= 3
    /\ obs.call_attempts <= 3
    /\ obs.call_33 = 3 =>
         /\ pc \in AfterPcs
         /\ response \in {Raised(RuntimeErrorOf(b)) : b \in {k \in KoBodies : k.code = 33}}
         /\ obs.call_attempts = 3
         /\ obs.call_ts_waits = 2

\* A call that ended on its third ko 33.
C6_Witness ==
    /\ pc \in AfterPcs
    /\ obs.call_33 = 3
    /\ response.kind = "exc"

\* C7: the wait after a ko 33 lasts one second, every retried attempt comes after
\* one such wait, and an authenticated retry is signed anew with a timestamp that
\* differs from the one of the rejected request.
C7_RetryWithNewTimestamp ==
    /\ sleep_kind = "ts_retry" => sleep_for = ONE_SECOND
    /\ (pc = "http" /\ ts_attempt > 0) =>
         /\ obs.call_ts_waits = ts_attempt
         /\ Authenticated(verb) => ~ts_same
         /\ (Authenticated(verb) /\ http_attempt = 0) => since_sign = 0

\* An authenticated request is about to be sent again after a ko 33.
C7_Witness ==
    /\ pc = "http"
    /\ ts_attempt = 1
    /\ http_attempt = 0
    /\ Authenticated(verb)
    /\ obs.call_33 = 1

\* C8, as stated: a call that meets a refused connection has made exactly one
\* HTTP attempt, takes no wait and ends with that error.
C8_RefusedSingleAttempt ==
    obs.refused_seen =>
        /\ obs.refused_first
        /\ pc \in AfterPcs
        /\ response.kind = "exc" /\ response.exc.refused

\* C8, amended: the refused attempt is the last of its call: the call has ended
\* with that error and no wait is pending; it was the only attempt when it was
\* the first.
C8_RefusedEndsCall ==
    obs.refused_seen =>
        /\ pc \in AfterPcs
        /\ sleep_kind = "none"
        /\ response.kind = "exc"
        /\ response.exc.cls = "ConnectionError" /\ response.exc.refused
        /\ obs.refused_first =>
             (obs.call_attempts = 1 /\ obs.backoffs = <<>> /\ obs.call_ts_waits = 0)

\* A call whose third HTTP attempt was refused, after two timeouts or resets.
C8_Witness ==
    /\ obs.refused_seen
    /\ ~obs.refused_first
    /\ Len(obs.backoffs) = 2
    /\ pc \in AfterPcs

\* The transport errors __http_request retries.
Retried(e) ==
    \/ e.cls \in {"Timeout", "ConnectionResetError"}
    \/ e.cls = "ConnectionError" /\ ~e.refused

\* C9: one request is sent at most three times, the waits between its attempts
\* are one second and then two, and when it ends with a retried kind of error
\* all three attempts were made and no wait is pending.
C9_DoublingBackoff ==
    /\ http_attempt <= 2
    /\ obs.backoffs \in {<<>>, <<ONE_SECOND>>, <<ONE_SECOND, 2 * ONE_SECOND>>}
    /\ pc = "http" => Len(obs.backoffs) = http_attempt
    /\ (pc \in AfterPcs /\ response.kind = "exc" /\ Retried(response.exc)) =>
         /\ obs.backoffs = <<ONE_SECOND, 2 * ONE_SECOND>>
         /\ sleep_kind = "none"

\* A request that failed three times, the last time by a timeout.
C9_Witness ==
    /\ pc \in AfterPcs
    /\ response.kind = "exc"
    /\ response.exc.cls = "Timeout"
    /\ obs.backoffs = <<ONE_SECOND, 2 * ONE_SECOND>>

\* C10: no status fetch of a device follows a code 38 without a synchronize call
\* in between, and the cycle does not leave a device after a successful
\* synchronize without having fetched its status again.
C10_SyncThenStatusRetry ==
    /\ pc = "fetch" => ~obs.pending38
    /\ pc = "inter" => ~obs.owe_retry

\* The code the device loop reads from a failed call, and the failures of the
\* transport.
ReadCode(r) ==
    IF r.kind = "exc" /\ r.exc.cls = "RuntimeError" /\ r.exc.status_first
      THEN r.exc.code
      ELSE NoCode
TransportFailure(r) ==
    /\ r.kind = "exc"
    /\ r.exc.cls \in {"ConnectionError", "Timeout", "ConnectionResetError", "RequestException"}

\* C11: on the code-38 path a failed synchronize is followed by a wait of five
\* seconds and another synchronize after the first and the second failure; the
\* third failure ends the device's turn at once, with no wait, no status fetch
\* and no change of any device's fields, and the loop moves to the next device.
C11_FailedSyncAbandonsDevice ==
    [][/\ (pc = "after_sync" /\ response.kind = "exc") =>
            /\ heap' = heap
            /\ IF sync_attempt < 2
                 THEN /\ pc' = "sleep" /\ resume' = "sync"
                      /\ sleep_for' = 5 * ONE_SECOND
                      /\ sync_attempt' = sync_attempt + 1
                 ELSE /\ pc' = "inter"
                      /\ sleep_for' = 0
       /\ pc = "inter" => (dev' = dev + 1 /\ heap' = heap)
       /\ heap' # heap => (pc = "after_status" /\ pc' = "inter")]_vars

\* The third synchronize of a device has failed and its turn is over, its fields
\* still the ones of setup.
C11_Witness ==
    /\ pc = "inter"
    /\ obs.handled.op = "sync"
    /\ obs.handled.result.kind = "exc"
    /\ sync_attempt = 2
    /\ heap[devices.elems[dev]] = NewHeap[devices.elems[dev]]

\* C18: a status fetch that ends with a failure of the transport ends the
\* device's turn, on whatever attempt: no wait, no further call, no field changed.
C18_TransportFailureEndsTurn ==
    [][(pc = "after_status" /\ TransportFailure(response)) =>
          /\ pc' = "inter"
          /\ sleep_for' = 0
          /\ attempt' = attempt
          /\ heap' = heap]_vars

\* A transport failure on the second attempt of a device has ended its turn.
C18_Witness ==
    /\ pc = "inter"
    /\ obs.handled.op = "status"
    /\ TransportFailure(obs.handled.result)
    /\ obs.handled.result.exc.cls = "Timeout"
    /\ attempt = 1

\* C19: a status fetch that fails with code 400 or 500 is followed by a wait of
\* six seconds, and then by another fetch when fewer than three attempts were
\* made; that fetch starts no sooner than six seconds after the client's last
\* request.
C19_BusyWaitThenRetry ==
    [][/\ (pc = "after_status" /\ ReadCode(response) \in {400, 500}) =>
            /\ pc' = "sleep"
            /\ sleep_for' = 6 * ONE_SECOND
            /\ resume' = IF attempt < 2 THEN "fetch" ELSE "inter"
            /\ attempt' = attempt + 1
            /\ heap' = heap
       /\ (pc' = "fetch" /\ ReadCode(obs'.handled.result) \in {400, 500}) =>
            obs'.since_request >= 6 * ONE_SECOND]_vars

\* The device is about to be fetched again after a busy answer and the wait.
C19_Witness ==
    /\ pc = "fetch"
    /\ obs.handled.op = "status"
    /\ ReadCode(obs.handled.result) = 400
    /\ attempt = 2

\* C20: a status fetch that fails with code 33 or 34 is followed at once by
\* another fetch when it was the first attempt, and ends the device's turn when
\* it was a later one; no wait is taken and no field changes either way.
C20_TransientRetriedOnce ==
    [][(pc = "after_status" /\ ReadCode(response) \in {33, 34}) =>
          /\ pc' = IF attempt = 0 THEN "fetch" ELSE "inter"
          /\ attempt' = IF attempt = 0 THEN 1 ELSE attempt
          /\ sleep_for' = 0
          /\ heap' = heap]_vars

\* A code 34 on the second attempt, after a busy answer on the first, has ended
\* the device's turn.
C20_Witness ==
    /\ pc = "inter"
    /\ obs.handled.op = "status"
    /\ ReadCode(obs.handled.result) = 34
    /\ attempt = 1

\* C14 as stated: the first request of a light call that follows a heavy call is
\* sent no sooner than the heavy delay after that heavy call's request.
C14_LightWaitsHeavyDelay ==
    (pc = "stamp" /\ obs.prev_heavy /\ verb \in LightVerbs) =>
        time_since_last_request >= 5 * ONE_SECOND

\* C14: both classes read and write the one last-request time, and a call waits
\* the delay of its own class since it: a light call that follows a heavy call
\* passes the rate limiter once one second has gone by since the heavy call
\* passed it, and a heavy call once five seconds have.
C14_WaitsDelayOfOwnClass ==
    /\ (pc = "sleep" /\ sleep_kind = "rate_limit") =>
          time_since_last_request + sleep_for = ClassDelay(verb)
    /\ (pc = "stamp" /\ verb \in LightVerbs) =>
          time_since_last_request >= 1 * ONE_SECOND
    /\ (pc = "stamp" /\ verb \in HeavyVerbs) =>
          time_since_last_request >= 5 * ONE_SECOND

\* A light call that follows a heavy call passes the rate limiter one second
\* after the heavy call did.
C14_Witness ==
    /\ pc = "stamp"
    /\ obs.prev_heavy
    /\ verb \in LightVerbs
    /\ time_since_last_request = 1 * ONE_SECOND

\* The actions that are sent with ts and hash when a share code is set.
SignedVerbs == {"locker_open", "locker_close", "locker_calibrate", "locker_status",
                "locker_synchronize", "locker_update"}

\* C15 as stated: every request of a signed call carries a ts/hash pair signed
\* for it, so none is sent twice.
C15_EverySendFreshlySigned ==
    (pc = "http" /\ verb \in SignedVerbs) => since_sign = 0

\* C15: a signed call signs anew for each pass of its code-33 loop, with a
\* second of the clock other than the one of the pass before; the transport
\* retries within a pass send the pair of the pass again.
C15_SignedOncePerPass ==
    (pc = "http" /\ verb \in SignedVerbs) =>
        /\ http_attempt = 0 => since_sign = 0
        /\ http_attempt > 0 => since_sign > 0
        /\ ts_attempt > 0 => ~ts_same

\* A signed request is sent for the second time within a pass, after the
\* back-off, with the pair signed before the first send.
C15_Witness ==
    /\ pc = "http"
    /\ verb = "locker_open"
    /\ ts_attempt = 1
    /\ http_attempt = 1
    /\ since_sign >= INITIAL_RETRY_DELAY \div 2

\* C16: in a cycle where the first lock is fetched at the first attempt and the
\* second after one busy answer, the device loop takes at least 6.5 seconds: it
\* sleeps the six seconds of the busy wait and half a second after each of the
\* two locks, and nothing else; and each lock's fields are the ones of the last
\* reading fetched for it.
C16_DevicePhaseElapsed ==
    pc = "return" =>
        /\ obs.phase_time >= 6 * ONE_SECOND + ONE_SECOND \div 2
        /\ obs.phase_waits = 6 * ONE_SECOND + 2 * (ONE_SECOND \div 2)
        /\ obs.phase_time >= obs.phase_waits
        /\ \A d \in DeviceIndex :
              /\ obs.last_ok[d] \in Readings
              /\ heap[devices.elems[d]].is_locked = obs.last_ok[d].is_locked
              /\ heap[devices.elems[d]].battery_level = obs.last_ok[d].battery_level

\* Such a cycle has come to its end, the two locks with different readings.
C16_Witness ==
    /\ pc = "return"
    /\ obs.timed
    /\ obs.phase_waits = 7 * ONE_SECOND
    /\ heap[devices.elems[1]].is_locked
    /\ ~heap[devices.elems[2]].is_locked
    /\ heap[devices.elems[2]].battery_level = 20

\* C12: at no time are two HTTP requests to the gateway in flight, one sent by
\* the cycle's status fetch and one by a device verb the host runs on another
\* worker thread.
C12_OneRequestInFlight ==
    Cardinality({t \in ThreadIds : threads[t].pc = "in_flight"}) <= 1

\* C13: when a device method called for a user's lock, unlock, calibrate or sync
\* raises, the entity method or button press that called it ends by raising to
\* the host.
C13_FailurePropagates ==
    (ui.outcome \in {"returned", "raised"} /\ ui.failed) => ui.outcome = "raised"

C21_OtherErrorEndsTurn ==
    [][(/\ pc = "after_status"
        /\ response.kind = "exc"
        /\ response.exc.cls = "RuntimeError"
        /\ ReadCode(response) \notin {400, 500, 38, 33, 34}) =>
          /\ pc' = "inter"
          /\ sleep_for' = 0
          /\ attempt' = attempt
          /\ heap' = heap]_vars

\* A ko body with code 38 that does not begin with its status key, so that the
\* code is not read, has ended the device's turn on the first attempt.
C21_Witness ==
    /\ pc = "inter"
    /\ obs.handled.op = "status"
    /\ obs.handled.result.kind = "exc"
    /\ obs.handled.result.exc.cls = "RuntimeError"
    /\ obs.handled.result.exc.code = 38
    /\ ~obs.handled.result.exc.status_first
    /\ attempt = 0

\* C22: whatever the outcomes, a device is fetched at most three times in a
\* cycle and each code-38 round makes at most three synchronize calls; a busy
\* wait, a successful synchronize and a transient retry each use up one of the
\* three attempts.
C22_AttemptCaps ==
    [][/\ obs'.fetches <= 3
       /\ obs'.syncs <= 3
       /\ obs'.fetches <= attempt' + 1
       /\ pc' = "fetch" => attempt' < 3
       /\ (pc = "after_status" /\ ReadCode(response) \in {400, 500}) =>
            attempt' = attempt + 1
       /\ (pc = "after_sync" /\ response.kind = "body") => attempt' = attempt + 1
       /\ (pc = "after_status" /\ pc' = "fetch") => attempt' = attempt + 1]_vars

\* The third fetch of a device was answered with code 38 and the third
\* synchronize of that round has been made.
C22_Witness ==
    /\ pc = "after_sync"
    /\ obs.fetches = 3
    /\ obs.syncs = 3

\* C23: the first status fetch of every device after the first starts at least
\* the inter-device delay of half a second after the last request made for the
\* device before it, however that device's turn ended; the delay is slept after
\* each device's turn.
C23_InterDeviceDelay ==
    [][/\ (pc' = "fetch" /\ attempt' = 0 /\ dev' > 1) =>
            obs'.since_request >= ONE_SECOND \div 2
       /\ pc = "inter" =>
            /\ pc' = "sleep"
            /\ sleep_for' = ONE_SECOND \div 2
            /\ resume' = "device"]_vars

\* The second device is about to be fetched half a second after the request
\* of the first, whose turn a transport failure ended.
C23_Witness ==
    /\ pc = "fetch"
    /\ dev = 2
    /\ attempt = 0
    /\ obs.polled = <<1>>
    /\ obs.since_request = ONE_SECOND \div 2
    /\ heap[devices.elems[1]] = NewHeap[devices.elems[1]]

\* C24: a cycle whose probe let the devices be polled comes to its end with
\* every device of the collection fetched at least once, in the order of the
\* collection, whatever ended the turn of the devices before.
C24_EveryDevicePolled ==
    (pc = "return" /\ obs.probe = Polling) =>
        obs.polled = [i \in DeviceIndex |-> i]

\* A cycle ends in which the first device was fetched and kept the fields of
\* setup, and the second was fetched with success.
C24_Witness ==
    /\ pc = "return"
    /\ obs.probe = Polling
    /\ Len(obs.polled) = Len(LockIds)
    /\ heap[devices.elems[1]] = NewHeap[devices.elems[1]]
    /\ heap[devices.elems[2]].battery_level = 80

\* C29: a wait of six seconds for a busy gateway is only taken when another
\* fetch of the same device comes after it.
C29_BusyWaitOnlyBeforeFetch ==
    (pc = "sleep" /\ sleep_kind = "busy") => resume = "fetch"

C26_KoEndsCall ==
    /\ (obs.received.status = "ko" /\ obs.received.code # 33) =>
          /\ pc \in {"after_verb", "idle"}
          /\ sleep_for = 0
          /\ pc = "after_verb" => response = Raised(RuntimeErrorOf(obs.received))
          /\ pc = "idle" => obs.returned.value = "raised"
    /\ obs.received.status \in {"ok", "absent"} =>
          /\ pc \in {"after_verb", "idle"}
          /\ sleep_for = 0
          /\ pc = "after_verb" => response = Returned([obs.received EXCEPT !.status = "ok"])
          /\ pc = "idle" => obs.returned.value \in {"True", "dict"}

\* A call whose first request was answered ko 33 and whose second was answered
\* ko 38 has raised the second body.
C26_Witness ==
    /\ pc = "after_verb"
    /\ obs.call_33 = 1
    /\ obs.call_attempts = 2
    /\ obs.received.status = "ko"
    /\ obs.received.code = 38
    /\ response.exc.code = 38

\* The methods of the gateway client that return a comparison.
BooleanVerbs == {"update", "synchronize", "locker_open", "locker_close",
                 "locker_calibrate", "locker_synchronize", "locker_update"}

C27_CancelInterruptsWait ==
    cancelled # "no" => (pc = "cancelled" /\ sleep_for = 0)

\* C30: every cycle that starts comes to its end, the return of the collection
\* to the host.
C30_CycleTerminates == (pc = "probe") ~> (pc = "notify")

\* A cycle that ended after every device was fetched, the last one with all
\* three status attempts used and a clock synchronization on the way.
C30_Witness ==
    /\ pc = "notify"
    /\ Len(obs.polled) = Len(LockIds)
    /\ attempt = STATUS_ATTEMPTS
    /\ sync_attempt > 0

====
